---- MODULE Spec2Model ----
(***************************************************************************)
(* The four two_sum implementations of coding-challenges/template          *)
(* (david.py, joseantonio.py, jp.py, patrick.py) as one state machine.     *)
(* A driver calls the four functions one after the other on the same       *)
(* (nums, target) and then calls all four a second time; every loop        *)
(* iteration of every function is one step.  Indices are 0-based as in     *)
(* the Python source; At(s, i) reads s[i].                                  *)
(***************************************************************************)
EXTENDS Integers, Sequences, FiniteSets

\* ---------------------------------------------------------------- bounds
MaxLen == 4
MaxVal == 1

Vals == (0 - 1)..MaxVal
Targets == (0 - 2)..(2 * MaxVal + 1)

\* all sequences over Vals of length 0..n
SeqsUpTo(n) == UNION {[1..k -> Vals] : k \in 0..n}

BoundedInputs == {<<s, t>> : s \in SeqsUpTo(MaxLen), t \in Targets}

\* the three demonstration calls of every file's __main__ block
DemoInputs ==
    { <<<<2, 7, 11, 15>>, 9>>,
      <<<<3, 2, 4>>, 6>>,
      <<<<3, 3>>, 6>> }

Inputs == BoundedInputs \cup DemoInputs

Variants == {"david", "joseantonio", "jp", "patrick"}

VARIABLES
    nums,         \* the argument nums (never assigned by any variant)
    target,       \* the argument target
    call,         \* 1 = first round of calls, 2 = second round
    pc,           \* the statement the driver is at
    returned,     \* the variants that have returned in this round
    result,       \* variant -> value returned in this round
    prev,         \* variant -> value returned in round 1
    num_map,      \* david.py: dict value -> index
    d_i,          \* david.py: loop index i
    seen,         \* joseantonio.py: dict value -> index
    j_index,      \* joseantonio.py: loop index
    jp_i,         \* jp.py: outer loop index i
    jp_j,         \* jp.py: inner loop index j
    sorted_nums,  \* patrick.py: list of <<original index, value>>
    left,         \* patrick.py: left pointer
    right,        \* patrick.py: right pointer
    iters         \* patrick.py: while-loop bodies executed in this call

vars == <<nums, target, call, pc, returned, result, prev, num_map, d_i, seen,
          j_index, jp_i, jp_j, sorted_nums, left, right, iters>>

davidVars == <<num_map, d_i>>
joseVars == <<seen, j_index>>
jpVars == <<jp_i, jp_j>>
patrickVars == <<sorted_nums, left, right, iters>>
argVars == <<nums, target>>

\* ---------------------------------------------------------------- helpers
At(s, i) == s[i + 1]

EmptyMap == << >>

\* a wrong store: an existing key keeps its first index
DictSetDefault(d, k, i) ==
    [x \in (DOMAIN d) \cup {k} |-> IF x \in DOMAIN d THEN d[x] ELSE i]

\* d[k] = i on a Python dict: the key is added, or its value overwritten
DictSet(d, k, i) == [x \in (DOMAIN d) \cup {k} |-> IF x = k THEN i ELSE d[x]]

NoResults == [v \in Variants |-> << >>]

\* the variant called after v, and what the driver does after the last one
NextPc(v) ==
    CASE v = "david" -> "joseantonio_entry"
      [] v = "joseantonio" -> "jp_entry"
      [] v = "jp" -> "patrick_entry"
      [] v = "patrick" -> IF call = 1 THEN "david_entry" ELSE "done"

\* `return r` of variant v
Return(v, r) ==
    /\ result' = [result EXCEPT ![v] = r]
    /\ pc' = NextPc(v)
    /\ IF v = "patrick" /\ call = 1
       THEN /\ prev' = [result EXCEPT ![v] = r]
            /\ returned' = {}
            /\ call' = 2
       ELSE /\ returned' = returned \cup {v}
            /\ UNCHANGED <<prev, call>>

Init ==
    /\ \E in \in Inputs : nums = in[1] /\ target = in[2]
    /\ call = 1
    /\ pc = "david_entry"
    /\ returned = {}
    /\ result = NoResults
    /\ prev = NoResults
    /\ num_map = EmptyMap
    /\ d_i = 0
    /\ seen = EmptyMap
    /\ j_index = 0
    /\ jp_i = 0
    /\ jp_j = 0
    /\ sorted_nums = << >>
    /\ left = 0
    /\ right = 0
    /\ iters = 0

\* ---------------------------------------------------------------- david.py
\* a wrong subtraction
ComplementSwapped(t, num) == num - t

\* complement = target - num
Complement(t, num) == t - num

\* david.py line 13: num_map = {}
DavidEntry ==
    /\ pc = "david_entry"
    /\ num_map' = EmptyMap
    /\ d_i' = 0
    /\ pc' = "david_loop"
    /\ UNCHANGED <<argVars, call, returned, result, prev, joseVars, jpVars,
                   patrickVars>>

\* a wrong body: the current element is stored before the lookup
DavidBodyStoreFirst ==
    LET num == At(nums, d_i)
        complement == Complement(target, num)
        stored == DictSet(num_map, num, d_i)
    IN  IF complement \in DOMAIN stored
        THEN /\ Return("david", <<stored[complement], d_i>>)
             /\ num_map' = stored
             /\ UNCHANGED d_i
        ELSE /\ num_map' = stored
             /\ d_i' = d_i + 1
             /\ UNCHANGED <<pc, returned, result, prev, call>>

\* david.py lines 15-18: the body of the for loop, for i = d_i
DavidBody ==
    LET num == At(nums, d_i)
        complement == Complement(target, num)
    IN  IF complement \in DOMAIN num_map
        THEN /\ Return("david", <<num_map[complement], d_i>>)
             /\ UNCHANGED <<num_map, d_i>>
        ELSE /\ num_map' = DictSet(num_map, num, d_i)
             /\ d_i' = d_i + 1
             /\ UNCHANGED <<pc, returned, result, prev, call>>

\* david.py lines 14-18: one iteration of `for i, num in enumerate(nums)`
DavidLoop ==
    /\ pc = "david_loop"
    /\ d_i < Len(nums)
    /\ DavidBody
    /\ UNCHANGED <<argVars, joseVars, jpVars, patrickVars>>

\* david.py line 20: the loop is exhausted, return []
DavidNotFound ==
    /\ pc = "david_loop"
    /\ d_i >= Len(nums)
    /\ Return("david", << >>)
    /\ UNCHANGED <<argVars, davidVars, joseVars, jpVars, patrickVars>>

\* ---------------------------------------------------------------- joseantonio.py
\* a wrong complement: the value itself is looked up
DiffIsValue(t, value) == value

\* diff = target - value
Diff(t, value) == t - value

\* joseantonio.py line 13: seen = {}
JoseEntry ==
    /\ pc = "joseantonio_entry"
    /\ seen' = EmptyMap
    /\ j_index' = 0
    /\ pc' = "joseantonio_loop"
    /\ UNCHANGED <<argVars, call, returned, result, prev, davidVars, jpVars,
                   patrickVars>>

\* joseantonio.py lines 14-18: one iteration of the for loop
JoseLoop ==
    /\ pc = "joseantonio_loop"
    /\ j_index < Len(nums)
    /\ LET value == At(nums, j_index)
           diff == Diff(target, value)
       IN  IF diff \in DOMAIN seen
           THEN /\ Return("joseantonio", <<seen[diff], j_index>>)
                /\ UNCHANGED <<seen, j_index>>
           ELSE /\ seen' = DictSet(seen, value, j_index)
                /\ j_index' = j_index + 1
                /\ UNCHANGED <<pc, returned, result, prev, call>>
    /\ UNCHANGED <<argVars, davidVars, jpVars, patrickVars>>

\* joseantonio.py line 19: return []
JoseNotFound ==
    /\ pc = "joseantonio_loop"
    /\ j_index >= Len(nums)
    /\ Return("joseantonio", << >>)
    /\ UNCHANGED <<argVars, davidVars, joseVars, jpVars, patrickVars>>

\* ---------------------------------------------------------------- jp.py
\* a wrong range: the inner loop starts at i itself
InnerStartAtI(i) == i

\* first value of j in `for j in range(i + 1, len(nums))`
InnerStart(i) == i + 1

\* jp.py line 13: the outer loop starts at i = 0
JpEntry ==
    /\ pc = "jp_entry"
    /\ jp_i' = 0
    /\ jp_j' = 0
    /\ pc' = "jp_outer"
    /\ UNCHANGED <<argVars, call, returned, result, prev, davidVars, joseVars,
                   patrickVars>>

\* jp.py lines 13-14: the outer loop takes its next i and starts the inner loop
JpOuter ==
    /\ pc = "jp_outer"
    /\ jp_i < Len(nums)
    /\ jp_j' = InnerStart(jp_i)
    /\ pc' = "jp_inner"
    /\ UNCHANGED <<argVars, call, returned, result, prev, jp_i, davidVars,
                   joseVars, patrickVars>>

\* jp.py lines 14-16: one iteration of the inner loop
JpInner ==
    /\ pc = "jp_inner"
    /\ jp_j < Len(nums)
    /\ IF At(nums, jp_i) + At(nums, jp_j) = target
       THEN /\ Return("jp", <<jp_i, jp_j>>)
            /\ UNCHANGED <<jp_i, jp_j>>
       ELSE /\ jp_j' = jp_j + 1
            /\ UNCHANGED <<pc, returned, result, prev, call, jp_i>>
    /\ UNCHANGED <<argVars, davidVars, joseVars, patrickVars>>

\* jp.py line 14: the inner range is exhausted, back to the outer loop
JpInnerEnd ==
    /\ pc = "jp_inner"
    /\ jp_j >= Len(nums)
    /\ jp_i' = jp_i + 1
    /\ pc' = "jp_outer"
    /\ UNCHANGED <<argVars, call, returned, result, prev, jp_j, davidVars,
                   joseVars, patrickVars>>

\* jp.py line 18: return []
JpNotFound ==
    /\ pc = "jp_outer"
    /\ jp_i >= Len(nums)
    /\ Return("jp", << >>)
    /\ UNCHANGED <<argVars, davidVars, joseVars, jpVars, patrickVars>>

\* ---------------------------------------------------------------- patrick.py
\* enumerate(nums): the list of <<index, value>>
Enumerate(s) == [k \in 1..Len(s) |-> <<k - 1, s[k]>>]

\* a wrong order: of two elements of equal value the later one comes first
RankTiesReversed(e, k) ==
    Cardinality({j \in 1..Len(e) :
                    e[j][2] < e[k][2] \/ (e[j][2] = e[k][2] /\ j > k)})

\* the number of elements a stable sort by value puts in front of e[k]: those
\* of smaller value, and those of equal value that come earlier in e
Rank(e, k) ==
    Cardinality({j \in 1..Len(e) :
                    e[j][2] < e[k][2] \/ (e[j][2] = e[k][2] /\ j < k)})

\* sorted(e, key=lambda x: x[1]); sorted() is stable
SortedByValue(e) ==
    [r \in 1..Len(e) |-> e[CHOOSE k \in 1..Len(e) : Rank(e, k) = r - 1]]

\* a wrong sort: the list is left in input order
Unsorted(s) == Enumerate(s)

\* sorted(enumerate(nums), key=lambda x: x[1])
SortedEnumerate(s) == SortedByValue(Enumerate(s))

\* a wrong result: the two indices in pointer order
PointerOrder(a, b) == <<a, b>>

\* sorted([a, b])
SortedPair(a, b) == IF a <= b THEN <<a, b>> ELSE <<b, a>>

\* a wrong loop condition
LoopCondOrEqual(l, r) == l <= r

\* while left < right
LoopCond(l, r) == l < r

\* a wrong move: the right pointer retreats whatever the sum is
NextRightAlways(r, current_sum, t) == r - 1

\* the pointers after an iteration whose sum is not the target
NextLeft(l, current_sum, t) == IF current_sum < t THEN l + 1 ELSE l
NextRight(r, current_sum, t) == IF current_sum < t THEN r ELSE r - 1

\* patrick.py lines 13-14
PatrickEntry ==
    /\ pc = "patrick_entry"
    /\ sorted_nums' = SortedEnumerate(nums)
    /\ left' = 0
    /\ right' = Len(nums) - 1
    /\ iters' = 0
    /\ pc' = "patrick_loop"
    /\ UNCHANGED <<argVars, call, returned, result, prev, davidVars, joseVars,
                   jpVars>>

\* patrick.py lines 16-24: one iteration of the while loop
PatrickLoop ==
    /\ pc = "patrick_loop"
    /\ LoopCond(left, right)
    /\ iters' = iters + 1
    /\ LET current_sum == At(sorted_nums, left)[2] + At(sorted_nums, right)[2]
       IN  IF current_sum = target
           THEN /\ Return("patrick", SortedPair(At(sorted_nums, left)[1],
                                                At(sorted_nums, right)[1]))
                /\ UNCHANGED <<left, right>>
           ELSE /\ left' = NextLeft(left, current_sum, target)
                /\ right' = NextRight(right, current_sum, target)
                /\ UNCHANGED <<pc, returned, result, prev, call>>
    /\ UNCHANGED <<argVars, sorted_nums, davidVars, joseVars, jpVars>>

\* patrick.py line 27: return []
PatrickNotFound ==
    /\ pc = "patrick_loop"
    /\ ~LoopCond(left, right)
    /\ Return("patrick", << >>)
    /\ UNCHANGED <<argVars, davidVars, joseVars, jpVars, patrickVars>>

\* ---------------------------------------------------------------- the system
Next ==
    \/ DavidEntry
    \/ DavidLoop
    \/ DavidNotFound
    \/ JoseEntry
    \/ JoseLoop
    \/ JoseNotFound
    \/ JpEntry
    \/ JpOuter
    \/ JpInner
    \/ JpInnerEnd
    \/ JpNotFound
    \/ PatrickEntry
    \/ PatrickLoop
    \/ PatrickNotFound

Spec == Init /\ [][Next]_vars

\* every call runs to completion: nothing suspends or cancels a step
FairSpec == Spec /\ WF_vars(Next)

TypeOK ==
    /\ call \in 1..2
    /\ returned \subseteq Variants
    /\ \A v \in Variants : Len(result[v]) \in {0, 2}

\* ---------------------------------------------------------------- properties
Indices == 0..(Len(nums) - 1)

\* the pairs of indices a < b whose values sum to target
AscPairs ==
    {p \in Indices \X Indices : p[1] < p[2] /\ At(nums, p[1]) + At(nums, p[2]) = target}

\* some pair of distinct indices sums to target
SolutionExists ==
    \E a, b \in Indices : a # b /\ At(nums, a) + At(nums, b) = target

LexLess(p, q) == p[1] < q[1] \/ (p[1] = q[1] /\ p[2] < q[2])

\* every <<variant, value returned>> known in this state: the calls of this
\* round that have returned and, in round 2, all calls of round 1
Results ==
    {<<v, result[v]>> : v \in returned}
        \cup (IF call = 2 THEN {<<v, prev[v]>> : v \in Variants} ELSE {})

HashResults == {o \in Results : o[1] \in {"david", "joseantonio"}}

Norm(r) == IF Len(r) = 2 THEN SortedPair(r[1], r[2]) ELSE r

Max(a, b) == IF a >= b THEN a ELSE b

\* C1: a non-empty result of any variant is a list of exactly two in-range,
\* distinct indices whose values sum to target (no element paired with itself)
C1_Soundness ==
    \A o \in Results :
        o[2] # << >> =>
            /\ Len(o[2]) = 2
            /\ o[2][1] \in Indices
            /\ o[2][2] \in Indices
            /\ o[2][1] # o[2][2]
            /\ At(nums, o[2][1]) + At(nums, o[2][2]) = target

\* all four variants returned a pair although some element doubled is the target
C1_Witness ==
    /\ pc = "done"
    /\ \A v \in Variants : result[v] # << >>
    /\ \E k \in Indices : 2 * At(nums, k) = target

\* C2: a variant returns [] exactly when no pair of distinct indices sums to
\* target; whenever such a pair exists a pair is returned
C2_Completeness ==
    \A o \in Results : (o[2] = << >>) <=> ~SolutionExists

\* the two-pointer scan has moved a pointer and then found a pair
C2_Witness ==
    /\ "patrick" \in returned
    /\ result["patrick"] # << >>
    /\ iters >= 2
    /\ sorted_nums # Enumerate(nums)

\* C3: when exactly one unordered pair of distinct indices sums to target, the
\* four variants return the same pair once each result is sorted ascending
C3_CrossVariant ==
    (call = 2 /\ Cardinality(AscPairs) = 1) =>
        \A v, w \in Variants : Norm(prev[v]) = Norm(prev[w])

C3_Witness ==
    /\ call = 2
    /\ Cardinality(AscPairs) = 1
    /\ Len(nums) >= 3
    /\ prev["jp"] \in AscPairs

\* sorted_nums holds every <<index, value>> of nums once, ascending by value,
\* elements of equal value in ascending index order
SortedStable ==
    /\ Len(sorted_nums) = Len(nums)
    /\ \A k \in 1..Len(sorted_nums) :
           /\ sorted_nums[k][1] \in Indices
           /\ sorted_nums[k][2] = At(nums, sorted_nums[k][1])
    /\ \A k, l \in 1..Len(sorted_nums) :
           k < l =>
               \/ sorted_nums[k][2] < sorted_nums[l][2]
               \/ /\ sorted_nums[k][2] = sorted_nums[l][2]
                  /\ sorted_nums[k][1] < sorted_nums[l][1]

C5_Demonstrations ==
    \A o \in Results :
        /\ (nums = <<2, 7, 11, 15>> /\ target = 9) => o[2] = <<0, 1>>
        /\ (nums = <<3, 2, 4>> /\ target = 6) => o[2] = <<1, 2>>
        /\ (nums = <<3, 3>> /\ target = 6) => o[2] = <<0, 1>>
        /\ (Len(nums) = 2 /\ nums[1] + nums[2] = target) => o[2] = <<0, 1>>

C5_Witness ==
    /\ pc = "done"
    /\ nums = <<3, 2, 4>>
    /\ target = 6
    /\ \A v \in Variants : result[v] = <<1, 2>>

\* C6 as stated: the hash-map variants return the lexicographically least
\* pair (a, b), a < b, among the valid pairs
C6_LexEarliest ==
    \A o \in HashResults :
        SolutionExists =>
            /\ o[2] \in AscPairs
            /\ \A q \in AscPairs : ~LexLess(q, o[2])

\* C6 amended: the hash-map variants return a valid pair a < b whose second
\* index b is the least second index of any valid pair
C6_EarliestSecondIndex ==
    \A o \in HashResults :
        SolutionExists =>
            /\ o[2] \in AscPairs
            /\ \A q \in AscPairs : o[2][2] <= q[2]

\* joseantonio.py returned a pair that is not the lexicographically least one
C6_Witness ==
    /\ "joseantonio" \in returned
    /\ result["joseantonio"] \in AscPairs
    /\ \E q \in AscPairs : LexLess(q, result["joseantonio"])

\* C7: jp.py returns the first valid pair in row-major order
C7_RowMajorFirst ==
    \A o \in Results :
        (o[1] = "jp" /\ SolutionExists) =>
            /\ o[2] \in AscPairs
            /\ \A q \in AscPairs : ~LexLess(q, o[2])

\* jp.py and david.py returned different pairs
C7_Witness ==
    /\ {"jp", "david"} \subseteq returned
    /\ result["jp"] \in AscPairs
    /\ result["david"] \in AscPairs
    /\ result["jp"] # result["david"]

\* C8: every non-empty result [a, b] has a < b; in the hash-map variants every
\* index stored in the map is below the current index
C8_Ascending ==
    /\ \A o \in Results : o[2] # << >> => o[2][1] < o[2][2]
    /\ pc = "david_loop" => \A k \in DOMAIN num_map : num_map[k] < d_i
    /\ pc = "joseantonio_loop" => \A k \in DOMAIN seen : seen[k] < j_index

\* patrick.py returned a pair whose smaller index was under the right pointer
C8_Witness ==
    /\ "patrick" \in returned
    /\ result["patrick"] # << >>
    /\ At(sorted_nums, left)[1] > At(sorted_nums, right)[1]

\* C9 as stated: patrick.py finishes after at most len(nums) - 1 iterations
C9_IterationBound ==
    "patrick" \in returned => iters <= Len(nums) - 1

\* the pointers while the scan runs: every iteration so far has narrowed the
\* window by one, and the list is only indexed inside it
C9_Window ==
    pc = "patrick_loop" =>
        /\ right - left = Len(nums) - 1 - iters
        /\ iters <= Max(Len(nums) - 1, 0)
        /\ LoopCond(left, right) => (0 <= left /\ left <= right /\ right <= Len(nums) - 1)

\* an iteration that does not return moves exactly one pointer by one
C9_OneMove ==
    (pc = "patrick_loop" /\ pc' = "patrick_loop") =>
        \/ (left' = left + 1 /\ right' = right)
        \/ (left' = left /\ right' = right - 1)

\* C9 amended: every iteration of patrick.py returns or moves exactly one
\* pointer by one, right - left strictly decreases, the list is indexed only
\* with 0 <= left <= right <= len(nums) - 1, and the call always finishes after
\* at most max(len(nums) - 1, 0) iterations
C9_Termination ==
    /\ []C9_Window
    /\ []("patrick" \in returned => iters <= Max(Len(nums) - 1, 0))
    /\ [][C9_OneMove]_vars
    /\ <>(pc = "done")

\* a scan that used every iteration it may use and found nothing
C9_Witness ==
    /\ "patrick" \in returned
    /\ result["patrick"] = << >>
    /\ Len(nums) = MaxLen
    /\ iters = Len(nums) - 1

\* the map of a hash-map variant at the start of iteration i: its keys are the
\* values of nums[0..i-1], each mapped to the last index below i holding it
MapIsLastIndex(m, i) ==
    /\ DOMAIN m = {At(nums, k) : k \in 0..(i - 1)}
    /\ \A x \in DOMAIN m :
           /\ m[x] \in 0..(i - 1)
           /\ At(nums, m[x]) = x
           /\ \A k \in 0..(i - 1) : At(nums, k) = x => k <= m[x]

\* C10: the hash-map variants return [a, b] with b the least index that has an
\* earlier partner and a the largest partner index below b; the map holds, for
\* the values seen so far, the last index of each
C10_LastPartner ==
    /\ \A o \in HashResults :
           SolutionExists =>
               /\ o[2] \in AscPairs
               /\ \A q \in AscPairs : o[2][2] <= q[2]
               /\ \A q \in AscPairs : q[2] = o[2][2] => q[1] <= o[2][1]
    /\ pc = "david_loop" => MapIsLastIndex(num_map, d_i)
    /\ pc = "joseantonio_loop" => MapIsLastIndex(seen, j_index)

\* david.py returned [a, b] although an index below a also pairs with b
C10_Witness ==
    /\ "david" \in returned
    /\ result["david"] \in AscPairs
    /\ \E q \in AscPairs : q[2] = result["david"][2] /\ q[1] < result["david"][1]

====
